---- MODULE Spec2Model ----
(***************************************************************************)
(* VideoCallTranslator (src/main.py): five daemon threads (audio capture,  *)
(* speech recognition, translation, video, network transport) started by   *)
(* start(), coordinated by the running flag and four FIFO queues, plus the *)
(* framed duplex transport of network_thread over one TCP connection.      *)
(***************************************************************************)
EXTENDS Integers, Sequences, FiniteSets, TLC

\* ------------------------------------------------------------------ bounds
\* audio segments the microphone delivers over one run
MaxAudio == 1
\* video frames the camera delivers over one run
MaxFrames == 1
\* frames the remote peer's transport writes over one run
MaxPeerMsgs == 1
\* network faults over one run: a failed or partial send (ours or the peer's),
\* a short or late read, a connection error
MaxFaults == 1
\* payload lengths 0..MaxProbeLen of the framer probes (besides the wide ones)
MaxProbeLen == 3

\* ------------------------------------------------------- program constants
\* struct "!BQ": 1 byte tag + 8 bytes big-endian length; recv(9)
HeaderLen == 9
\* recv(min(msg_size - received, 4096))
ChunkMax == 4096

NoSock == 0
\* the object socket.socket() returns
SockId == 1
\* the object accept() returns
ConnId == 2

Min(a, b) == IF a < b THEN a ELSE b

\* ------------------------------------------------------------------ framer
\* Lengths are exact below 2^24; whatever is larger reads as Huge (>= 2^24),
\* far beyond any stream the bounds produce.
Huge == 256 * 256 * 256

RECURSIVE ToBE(_, _)
\* n as k big-endian bytes
ToBE(n, k) == IF k = 0 THEN <<>> ELSE Append(ToBE(n \div 256, k - 1), n % 256)

RECURSIVE FromBE(_, _)
\* the big-endian value of bs, on top of acc
FromBE(bs, acc) ==
    IF bs = <<>> THEN acc
    ELSE FromBE(Tail(bs), IF acc >= 65536 THEN Huge ELSE acc * 256 + Head(bs))

\* a mutant of Pack: the length before the tag ("!QB")
Pack_LengthFirst(tag, n) == ToBE(n, 8) \o <<tag>>

\* struct.pack("!BQ", tag, n)
Pack(tag, n) == <<tag>> \o ToBE(n, 8)

\* struct.unpack("!BQ", bs): struct.error unless bs holds exactly 9 bytes
Unpack(bs) ==
    IF Len(bs) # HeaderLen
    THEN [ok |-> FALSE, tag |-> 0, size |-> 0]
    ELSE [ok |-> TRUE, tag |-> bs[1], size |-> FromBE(SubSeq(bs, 2, 9), 0)]

\* str.encode('utf-8') of one code point below U+0800
Utf8Char(c) == IF c < 128 THEN <<c>> ELSE <<192 + (c \div 64), 128 + (c % 64)>>

RECURSIVE Utf8Encode(_)
Utf8Encode(s) == IF s = <<>> THEN <<>> ELSE Utf8Char(Head(s)) \o Utf8Encode(Tail(s))

RECURSIVE Utf8Decode(_)
\* bytes.decode('utf-8') for the 1- and 2-byte forms: [ok, text]; a stray
\* continuation byte, a truncated sequence or an overlong lead is an error.
\* (Lead bytes of the 3- and 4-byte forms do not occur in the byte alphabet.)
Utf8Decode(bs) ==
    IF bs = <<>> THEN [ok |-> TRUE, text |-> <<>>]
    ELSE LET b == Head(bs) IN
         IF b < 128
         THEN LET r == Utf8Decode(Tail(bs))
              IN  [ok |-> r.ok, text |-> IF r.ok THEN <<b>> \o r.text ELSE <<>>]
         ELSE IF b >= 194 /\ b <= 223 /\ Len(bs) >= 2 /\ bs[2] >= 128 /\ bs[2] <= 191
         THEN LET r == Utf8Decode(Tail(Tail(bs)))
              IN  [ok |-> r.ok,
                   text |-> IF r.ok THEN <<(b - 192) * 64 + (bs[2] - 128)>> \o r.text
                            ELSE <<>>]
         ELSE [ok |-> FALSE, text |-> <<>>]

\* pickle.dumps(frame): an opaque self-delimiting serialisation, PROTO opcode
\* (0x80) first and STOP opcode ('.') last; the frame is its pixel bytes.
Pickle(frame) == <<128>> \o frame \o <<46>>

\* pickle.loads(data): [ok, frame]
Unpickle(data) ==
    IF Len(data) >= 3 /\ data[1] = 128 /\ data[Len(data)] = 46
    THEN [ok |-> TRUE, frame |-> SubSeq(data, 2, Len(data) - 1)]
    ELSE [ok |-> FALSE, frame |-> <<>>]

\* the payload bytes of a queued message (pickle.dumps / str.encode)
Payload(m) == IF m.type = "video" THEN Pickle(m.data) ELSE Utf8Encode(m.data)

\* encode(tag, payload): header + payload, as handed to sendall
Frame(tag, payload) == Pack(tag, Len(payload)) \o payload

\* lines 234-244: tag 0 and the pickle for 'video', tag 1 and the UTF-8
\* bytes for 'text'
Encode(m) == Frame(IF m.type = "video" THEN 0 ELSE 1, Payload(m))

\* what the speaker may say: "A" and "e-acute" as code point strings
Utterances == {<<65>>, <<233>>}

\* the camera's n-th frame, as its pixel bytes
CameraFrame(n) == <<n>>

\* translator.translate(text).text
Translate(text) == <<2309>> \o text


\* ------------------------------------------------------------------- state
VARIABLES
    running, translating, in_call, is_host,
    audio_queue, text_queue, translation_queue, network_queue,
    remote_frame, textLog,
    socket, connection, closed, timeouts, sockOps,
    cappc, recpc, transpc, vidpc, netpc, mainpc,
    text, frame, overlay,
    msg_type, msg_size, received, chunks,
    wireOut, inbuf, peerClosed, peerLog,
    netEvent, taken, decoded, engineLog, heard,
    nAudio, nFrames, nPeer, faultsLeft,
    probe

flags   == <<running, translating, in_call, is_host>>
queues  == <<audio_queue, text_queue, translation_queue, network_queue>>
sinks   == <<remote_frame, textLog>>
socks   == <<socket, connection, closed, timeouts, sockOps>>
pcs     == <<cappc, recpc, transpc, vidpc, netpc, mainpc>>
locals  == <<text, frame, overlay>>
rxstate == <<msg_type, msg_size, received, chunks>>
wire    == <<wireOut, inbuf, peerClosed, peerLog>>
ghosts  == <<netEvent, taken, decoded, engineLog, heard>>
counts  == <<nAudio, nFrames, nPeer, faultsLeft>>

vars == <<flags, queues, sinks, socks, pcs, locals, rxstate, wire, ghosts,
          counts, probe>>

\* the framer probe at rest (it moves only under SpecCodec)
NoProbe == [stage |-> "off", tag |-> 0, payload |-> <<>>, bytes |-> <<>>,
            cut |-> 0, result |-> [ok |-> FALSE, tag |-> 0, size |-> 0]]

\* the video stage has drawn nothing on its frame
NoOverlay == [text |-> <<>>, translation |-> <<>>]

\* __init__ (lines 17-67); the threads exist from start() on
Constructed ==
    /\ running = FALSE /\ translating = TRUE
    /\ in_call = FALSE /\ is_host = FALSE
    /\ audio_queue = <<>> /\ text_queue = <<>>
    /\ translation_queue = <<>> /\ network_queue = <<>>
    /\ remote_frame = <<>> /\ textLog = <<>>
    /\ socket = NoSock /\ connection = NoSock
    /\ closed = {} /\ timeouts = {} /\ sockOps = {}
    /\ cappc = "idle" /\ recpc = "idle" /\ transpc = "idle"
    /\ vidpc = "idle" /\ netpc = "idle" /\ mainpc = "start"
    /\ text = <<>> /\ frame = <<>> /\ overlay = NoOverlay
    /\ msg_type = 0 /\ msg_size = 0 /\ received = 0 /\ chunks = <<>>
    /\ wireOut = <<>> /\ inbuf = <<>> /\ peerClosed = FALSE /\ peerLog = <<>>
    /\ netEvent = "none" /\ taken = <<>> /\ decoded = <<>> /\ engineLog = <<>>
    /\ heard = <<>>
    /\ nAudio = 0 /\ nFrames = 0 /\ nPeer = 0

\* the program as constructed, on a network that loses and delays nothing
Init ==
    /\ Constructed
    /\ faultsLeft = 0
    /\ probe = NoProbe

\* ------------------------------------------------------------ orchestrator
\* setup_call (lines 97-114): 1 = host, 2 = join, 3 = local demo
CallModes == {"host", "client", "demo"}

\* start(), lines 308-325: menus, running = True, the five threads started
MainStart ==
    /\ mainpc = "start"
    /\ \E mode \in CallModes :
          /\ is_host' = (mode = "host")
          /\ in_call' = (mode # "demo")
    /\ running' = TRUE
    /\ cappc' = "loop" /\ recpc' = "loop" /\ transpc' = "loop"
    /\ vidpc' = "loop" /\ netpc' = "start"
    /\ mainpc' = "join"
    /\ UNCHANGED <<translating, queues, sinks, socks, locals, rxstate, wire,
                   ghosts, counts, probe>>

\* lines 328-331: threads[3].join() returns once the video thread has ended,
\* then running = False
MainJoin ==
    /\ mainpc = "join"
    /\ vidpc \in {"done", "crashed"}
    /\ running' = FALSE
    /\ mainpc' = "release"
    /\ UNCHANGED <<translating, in_call, is_host, queues, sinks, socks,
                   cappc, recpc, transpc, vidpc, netpc, locals, rxstate, wire,
                   ghosts, counts, probe>>

\* lines 332-333: cap.release(), cv2.destroyAllWindows(); nothing catches an
\* error either raises, which leaves start() at once (caught at line 346)
MainRelease ==
    /\ mainpc = "release"
    /\ mainpc' \in {"quit", "aborted_camera"}
    /\ UNCHANGED <<flags, queues, sinks, socks, cappc, recpc, transpc, vidpc,
                   netpc, locals, rxstate, wire, ghosts, counts, probe>>

\* line 334: pygame.quit() shuts the mixer (the audio output) down; an error
\* it raises leaves start() as well
MainQuitAudio ==
    /\ mainpc = "quit"
    /\ mainpc' \in {"close", "aborted_audio"}
    /\ UNCHANGED <<flags, queues, sinks, socks, cappc, recpc, transpc, vidpc,
                   netpc, locals, rxstate, wire, ghosts, counts, probe>>

\* the releases start() has attempted so far, in the order of lines 332-338
Attempted ==
    CASE mainpc \in {"start", "join", "release"} -> <<>>
      [] mainpc \in {"quit", "aborted_camera"} -> <<"camera">>
      [] mainpc \in {"close", "aborted_audio"} -> <<"camera", "audio">>
      [] OTHER -> <<"camera", "audio", "socket">>

\* pygame.quit() has returned: the mixer is no longer initialised
AudioShutDown == mainpc \in {"close", "done"}

\* what "if self.connection: close(); if self.socket: close()" closes
OpenHandles == {socket, connection} \ {NoSock}

\* lines 335-339
MainClose ==
    /\ mainpc = "close"
    /\ closed' = closed \cup OpenHandles
    /\ sockOps' = IF OpenHandles = {} THEN sockOps ELSE sockOps \cup {"close"}
    /\ mainpc' = "done"
    /\ UNCHANGED <<flags, queues, sinks, socket, connection, timeouts,
                   cappc, recpc, transpc, vidpc, netpc, locals, rxstate, wire,
                   ghosts, counts, probe>>

\* ------------------------------------------------------------ capture stage
\* a mutant of CapListen: the loop does not test the running flag
CapListen_NoFlag ==
    /\ cappc = "loop"
    /\ \/ /\ nAudio < MaxAudio
          /\ \E u \in Utterances :
                /\ audio_queue' = Append(audio_queue, u)
                /\ heard' = Append(heard, u)
          /\ nAudio' = nAudio + 1
       \/ UNCHANGED <<audio_queue, heard, nAudio>>
    /\ UNCHANGED <<flags, text_queue, translation_queue, network_queue, sinks,
                   socks, pcs, locals, rxstate, wire, netEvent, taken, decoded,
                   engineLog, nFrames, nPeer, faultsLeft, probe>>

\* lines 119-127, one pass of the loop: while self.running;
\* listen(timeout=2, phrase_time_limit=5) returns a segment, which is put
\* on audio_queue, or raises WaitTimeoutError (continue) or another error
\* (logged, sleep)
CapListen ==
    /\ cappc = "loop"
    /\ IF ~running
       THEN /\ cappc' = "done"
            /\ UNCHANGED <<audio_queue, heard, nAudio>>
       ELSE /\ UNCHANGED cappc
            /\ \/ /\ nAudio < MaxAudio
                  /\ \E u \in Utterances :
                        /\ audio_queue' = Append(audio_queue, u)
                        /\ heard' = Append(heard, u)
                  /\ nAudio' = nAudio + 1
               \/ UNCHANGED <<audio_queue, heard, nAudio>>
    /\ UNCHANGED <<flags, text_queue, translation_queue, network_queue, sinks,
                   socks, recpc, transpc, vidpc, netpc, mainpc, locals, rxstate,
                   wire, netEvent, taken, decoded, engineLog, nFrames, nPeer,
                   faultsLeft, probe>>

\* -------------------------------------------------------- recognition stage
\* a mutant of RecRecognize: the text goes out whether or not a call is active
RecRecognize_AlwaysSend ==
    /\ recpc = "loop"
    /\ IF ~running
       THEN /\ recpc' = "done"
            /\ UNCHANGED <<audio_queue, text_queue, network_queue>>
       ELSE IF audio_queue = <<>>
       THEN UNCHANGED <<recpc, audio_queue, text_queue, network_queue>>
       ELSE /\ UNCHANGED recpc
            /\ audio_queue' = Tail(audio_queue)
            /\ \/ /\ text_queue' = Append(text_queue, Head(audio_queue))
                  /\ network_queue' =
                        Append(network_queue,
                               [type |-> "text", data |-> Head(audio_queue)])
               \/ UNCHANGED <<text_queue, network_queue>>
    /\ UNCHANGED <<flags, translation_queue, sinks, socks, cappc, transpc,
                   vidpc, netpc, mainpc, locals, rxstate, wire, ghosts, counts,
                   probe>>

\* a mutant of RecRecognize: the loop does not test the running flag
RecRecognize_NoFlag ==
    /\ recpc = "loop"
    /\ IF audio_queue = <<>>
       THEN UNCHANGED <<recpc, audio_queue, text_queue, network_queue>>
       ELSE /\ UNCHANGED recpc
            /\ audio_queue' = Tail(audio_queue)
            /\ \/ /\ text_queue' = Append(text_queue, Head(audio_queue))
                  /\ network_queue' =
                        IF in_call
                        THEN Append(network_queue,
                                    [type |-> "text", data |-> Head(audio_queue)])
                        ELSE network_queue
               \/ UNCHANGED <<text_queue, network_queue>>
    /\ UNCHANGED <<flags, translation_queue, sinks, socks, cappc, transpc,
                   vidpc, netpc, mainpc, locals, rxstate, wire, ghosts, counts,
                   probe>>

\* lines 131-144, one pass of the loop: while self.running; if the queue is
\* not empty: audio = get(); recognize_google returns the text (put on
\* text_queue and, in a call, on network_queue) or raises
\* (UnknownValueError, RequestError, any other: nothing is put)
RecRecognize ==
    /\ recpc = "loop"
    /\ IF ~running
       THEN /\ recpc' = "done"
            /\ UNCHANGED <<audio_queue, text_queue, network_queue>>
       ELSE IF audio_queue = <<>>
       THEN UNCHANGED <<recpc, audio_queue, text_queue, network_queue>>
       ELSE /\ UNCHANGED recpc
            /\ audio_queue' = Tail(audio_queue)
            /\ \/ /\ text_queue' = Append(text_queue, Head(audio_queue))
                  /\ network_queue' =
                        IF in_call
                        THEN Append(network_queue,
                                    [type |-> "text", data |-> Head(audio_queue)])
                        ELSE network_queue
               \/ UNCHANGED <<text_queue, network_queue>>
    /\ UNCHANGED <<flags, translation_queue, sinks, socks, cappc, transpc,
                   vidpc, netpc, mainpc, locals, rxstate, wire, ghosts, counts,
                   probe>>

\* -------------------------------------------------------- translation stage
\* a mutant of TransLoop: the translating flag is not consulted
TransLoop_NoToggle ==
    /\ transpc = "loop"
    /\ IF ~running
       THEN /\ transpc' = "done"
            /\ UNCHANGED <<text, text_queue>>
       ELSE IF text_queue # <<>>
       THEN /\ text_queue' = Tail(text_queue)
            /\ text' = Head(text_queue)
            /\ transpc' = "translate"
       ELSE UNCHANGED <<text, text_queue, transpc>>
    /\ UNCHANGED <<flags, audio_queue, translation_queue, network_queue, sinks,
                   socks, cappc, recpc, vidpc, netpc, mainpc, frame,
                   overlay, rxstate, wire, ghosts, counts, probe>>

\* lines 148-151: while self.running; if not empty: text = get();
\* if self.translating (otherwise the text is dropped)
TransLoop ==
    /\ transpc = "loop"
    /\ IF ~running
       THEN /\ transpc' = "done"
            /\ UNCHANGED <<text, text_queue>>
       ELSE IF text_queue # <<>>
       THEN /\ text_queue' = Tail(text_queue)
            /\ IF translating
               THEN text' = Head(text_queue) /\ transpc' = "translate"
               ELSE UNCHANGED <<text, transpc>>
       ELSE UNCHANGED <<text, text_queue, transpc>>
    /\ UNCHANGED <<flags, audio_queue, translation_queue, network_queue, sinks,
                   socks, cappc, recpc, vidpc, netpc, mainpc, frame,
                   overlay, rxstate, wire, ghosts, counts, probe>>

\* a mutant of TransTranslate: the translation is put at the front of the
\* queue
TransTranslate_PutsFirst ==
    /\ transpc = "translate"
    /\ \/ /\ engineLog' = Append(engineLog, "translate")
          /\ UNCHANGED translation_queue
       \/ /\ translation_queue' = <<Translate(text)>> \o translation_queue
          /\ \/ engineLog' = engineLog \o <<"translate", "synthesize">>
             \/ engineLog' = engineLog \o <<"translate", "synthesize", "play">>
    /\ text' = <<>>
    /\ transpc' = "loop"
    /\ UNCHANGED <<flags, audio_queue, text_queue, network_queue, sinks, socks,
                   cappc, recpc, vidpc, netpc, mainpc, frame, overlay, rxstate,
                   wire, netEvent, taken, decoded, heard, counts, probe>>

\* lines 152-166: translator.translate(...) returns and the result is put
\* on translation_queue, then gTTS(...).write_to_fp and mixer.music.load /
\* play; whichever call raises ends the pass (logged)
TransTranslate ==
    /\ transpc = "translate"
    /\ \/ /\ engineLog' = Append(engineLog, "translate")
          /\ UNCHANGED translation_queue
       \/ /\ translation_queue' = Append(translation_queue, Translate(text))
          /\ \/ engineLog' = engineLog \o <<"translate", "synthesize">>
             \/ engineLog' = engineLog \o <<"translate", "synthesize", "play">>
    /\ text' = <<>>
    /\ transpc' = "loop"
    /\ UNCHANGED <<flags, audio_queue, text_queue, network_queue, sinks, socks,
                   cappc, recpc, vidpc, netpc, mainpc, frame, overlay, rxstate,
                   wire, netEvent, taken, decoded, heard, counts, probe>>

\* the global toggle of the translating flag (line 47 sets it; the spec's
\* "translating flag (toggle)" is written from outside the five stages)
ToggleTranslating ==
    /\ mainpc = "join"
    /\ translating' = ~translating
    /\ UNCHANGED <<running, in_call, is_host, queues, sinks, socks, pcs, locals,
                   rxstate, wire, ghosts, counts, probe>>

\* -------------------------------------------------------------- video stage
\* queue[-1]: the last item of a queue, left where it is
Last(q) == q[Len(q)]

\* lines 170-180: while self.running; cap.read() (a failed read sleeps and
\* continues); resize; if not self.text_queue.empty()
VidLoop ==
    /\ vidpc = "loop"
    /\ IF ~running
       THEN /\ vidpc' = "done"
            /\ UNCHANGED <<frame, overlay, nFrames>>
       ELSE \/ /\ nFrames < MaxFrames
               /\ frame' = CameraFrame(nFrames + 1)
               /\ overlay' = NoOverlay
               /\ nFrames' = nFrames + 1
               /\ vidpc' = IF text_queue # <<>> THEN "peek" ELSE "show"
            \/ UNCHANGED <<frame, overlay, nFrames, vidpc>>
    /\ UNCHANGED <<flags, queues, sinks, socks, cappc, recpc, transpc, netpc,
                   mainpc, text, rxstate, wire, ghosts,
                   nAudio, nPeer, faultsLeft, probe>>

\* lines 181-182: text = self.text_queue.queue[-1], drawn on the frame;
\* IndexError on an empty deque escapes the thread function
VidPeek ==
    /\ vidpc = "peek"
    /\ vidpc' = IF text_queue # <<>> THEN "show" ELSE "crashed"
    /\ frame' = IF text_queue # <<>> THEN frame ELSE <<>>
    /\ overlay' = IF text_queue # <<>>
                  THEN [overlay EXCEPT !.text = Last(text_queue)]
                  ELSE overlay
    /\ UNCHANGED <<flags, queues, sinks, socks, cappc, recpc, transpc, netpc,
                   mainpc, text, rxstate, wire, ghosts,
                   counts, probe>>

\* a mutant of VidShow: the frame is queued whether or not a call is active
VidShow_AlwaysSend ==
    /\ vidpc = "show"
    /\ overlay' = IF translation_queue # <<>> /\ translating
                  THEN [overlay EXCEPT !.translation = Last(translation_queue)]
                  ELSE overlay
    /\ network_queue' = Append(network_queue, [type |-> "video", data |-> frame])
    /\ \E quit \in BOOLEAN : running' = IF quit THEN FALSE ELSE running
    /\ frame' = <<>>
    /\ vidpc' = "loop"
    /\ UNCHANGED <<translating, in_call, is_host, audio_queue, text_queue,
                   translation_queue, sinks, socks, cappc, recpc, transpc, netpc,
                   mainpc, text, rxstate, wire, ghosts,
                   counts, probe>>

\* a mutant of VidShow: the translation is taken with get(), the oldest
\* first, instead of peeked
VidShow_Dequeues ==
    /\ vidpc = "show"
    /\ IF translation_queue # <<>> /\ translating
       THEN /\ overlay' = [overlay EXCEPT !.translation = Head(translation_queue)]
            /\ translation_queue' = Tail(translation_queue)
       ELSE UNCHANGED <<overlay, translation_queue>>
    /\ network_queue' =
          IF in_call
          THEN Append(network_queue, [type |-> "video", data |-> frame])
          ELSE network_queue
    /\ \E quit \in BOOLEAN : running' = IF quit THEN FALSE ELSE running
    /\ frame' = <<>>
    /\ vidpc' = "loop"
    /\ UNCHANGED <<translating, in_call, is_host, audio_queue, text_queue,
                   sinks, socks, cappc, recpc, transpc, netpc,
                   mainpc, text, rxstate, wire, ghosts,
                   counts, probe>>

\* lines 184-201: if the translation queue is not empty and translating:
\* translation = queue[-1], drawn on the frame; imshow; network_queue.put
\* if in a call; remote window; waitKey(1): 'q' sets running = False
VidShow ==
    /\ vidpc = "show"
    /\ overlay' = IF translation_queue # <<>> /\ translating
                  THEN [overlay EXCEPT !.translation = Last(translation_queue)]
                  ELSE overlay
    /\ network_queue' =
          IF in_call
          THEN Append(network_queue, [type |-> "video", data |-> frame])
          ELSE network_queue
    /\ \E quit \in BOOLEAN : running' = IF quit THEN FALSE ELSE running
    /\ frame' = <<>>
    /\ vidpc' = "loop"
    /\ UNCHANGED <<translating, in_call, is_host, audio_queue, text_queue,
                   translation_queue, sinks, socks, cappc, recpc, transpc, netpc,
                   mainpc, text, rxstate, wire, ghosts,
                   counts, probe>>


\* -------------------------------------------------------- network transport
\* a mutant of NetSetup: the local demo is not told apart
NetSetup_NoDemoCheck ==
    /\ netpc = "start"
    /\ \E outcome \in {"no_socket", "bind_failed", "ready"} :
          /\ outcome = "bind_failed" => is_host
          /\ socket' = IF outcome = "no_socket" THEN NoSock ELSE SockId
          /\ sockOps' = sockOps \cup
                CASE outcome = "no_socket" -> {"create"}
                  [] outcome = "bind_failed" -> {"create", "bind"}
                  [] OTHER -> IF is_host THEN {"create", "bind", "listen"}
                              ELSE {"create"}
          /\ netpc' = IF outcome # "ready" THEN "finally"
                      ELSE IF is_host THEN "accept" ELSE "connect"
    /\ UNCHANGED <<flags, queues, sinks, connection, closed, timeouts, cappc,
                   recpc, transpc, vidpc, mainpc, locals, rxstate, wire, ghosts,
                   counts, probe>>

\* lines 205-206: the local demo returns before any socket exists;
\* lines 208-215 (host: socket, setsockopt, bind, listen) and 220-221
\* (client: socket): any of the calls may raise, which lands in line 297
NetSetup ==
    /\ netpc = "start"
    /\ IF ~in_call
       THEN /\ netpc' = "done"
            /\ UNCHANGED <<socket, sockOps>>
       ELSE \E outcome \in {"no_socket", "bind_failed", "ready"} :
          /\ outcome = "bind_failed" => is_host
          /\ socket' = IF outcome = "no_socket" THEN NoSock ELSE SockId
          /\ sockOps' = sockOps \cup
                CASE outcome = "no_socket" -> {"create"}
                  [] outcome = "bind_failed" -> {"create", "bind"}
                  [] OTHER -> IF is_host THEN {"create", "bind", "listen"}
                              ELSE {"create"}
          /\ netpc' = IF outcome # "ready" THEN "finally"
                      ELSE IF is_host THEN "accept" ELSE "connect"
    /\ UNCHANGED <<flags, queues, sinks, connection, closed, timeouts, cappc,
                   recpc, transpc, vidpc, mainpc, locals, rxstate, wire, ghosts,
                   counts, probe>>

\* lines 216-217, 226: accept() on the listening socket (which has no
\* timeout) returns the connection once a client connects, or raises; then
\* connection.settimeout(0.1)
NetAccept ==
    /\ netpc = "accept"
    /\ sockOps' = sockOps \cup {"accept"}
    /\ \/ /\ connection' = ConnId
          /\ timeouts' = timeouts \cup {ConnId}
          /\ netpc' = "loop"
       \/ /\ UNCHANGED <<connection, timeouts>>
          /\ netpc' = "finally"
    /\ UNCHANGED <<flags, queues, sinks, socket, closed, cappc, recpc, transpc,
                   vidpc, mainpc, locals, rxstate, wire, ghosts, counts, probe>>

\* lines 222-226: connect() returns or raises; self.connection = self.socket;
\* connection.settimeout(0.1)
NetConnect ==
    /\ netpc = "connect"
    /\ sockOps' = sockOps \cup {"connect"}
    /\ \/ /\ connection' = socket
          /\ timeouts' = timeouts \cup {socket}
          /\ netpc' = "loop"
       \/ /\ UNCHANGED <<connection, timeouts>>
          /\ netpc' = "finally"
    /\ UNCHANGED <<flags, queues, sinks, socket, closed, cappc, recpc, transpc,
                   vidpc, mainpc, locals, rxstate, wire, ghosts, counts, probe>>

\* a mutant of NetLoop: the loop does not test the running flag
NetLoop_NoFlag ==
    /\ netpc = "loop"
    /\ netpc' = IF connection # NoSock THEN "send" ELSE "finally"
    /\ netEvent' = "none"
    /\ UNCHANGED <<flags, queues, sinks, socks, cappc, recpc, transpc, vidpc,
                   mainpc, locals, rxstate, wire, taken, decoded, engineLog,
                   heard, counts, probe>>

\* line 228: while self.running and self.connection
NetLoop ==
    /\ netpc = "loop"
    /\ netpc' = IF running /\ connection # NoSock THEN "send" ELSE "finally"
    /\ netEvent' = "none"
    /\ UNCHANGED <<flags, queues, sinks, socks, cappc, recpc, transpc, vidpc,
                   mainpc, locals, rxstate, wire, taken, decoded, engineLog,
                   heard, counts, probe>>

\* what sendall(header + data) can do: write everything and return, or
\* raise after writing any proper prefix (socket.timeout after 0.1 s,
\* ConnectionResetError, BrokenPipeError, another OSError); on a socket
\* already closed it raises at once
SendOutcomes(m) ==
    IF connection \in closed
    THEN {[kind |-> "send_error", k |-> 0, fault |-> FALSE]}
    ELSE {[kind |-> "sent", k |-> Len(Encode(m)), fault |-> FALSE]}
         \cup {[kind |-> e, k |-> k, fault |-> TRUE] :
                 e \in IF faultsLeft > 0
                       THEN {"send_timeout", "send_reset", "send_pipe", "send_error"}
                       ELSE {},
                 k \in 0 .. (Len(Encode(m)) - 1)}

TransientSend == {"send_timeout", "send_reset", "send_pipe"}

\* a mutant of AfterSend: a send timeout ends the loop
AfterSend_TimeoutBreaks(kind) ==
    IF kind = "sent" THEN "recv"
    ELSE IF kind \in {"send_reset", "send_pipe"} THEN "loop" ELSE "finally"

\* where the send attempt leaves the loop: on to the receive, or lines
\* 245-246 (continue), or lines 247-249 (break)
AfterSend(kind) ==
    IF kind = "sent" THEN "recv"
    ELSE IF kind \in TransientSend THEN "loop" ELSE "finally"

\* lines 229-249: one send attempt
NetSend ==
    /\ netpc = "send"
    /\ IF network_queue = <<>>
       THEN /\ netpc' = "recv"
            /\ UNCHANGED <<network_queue, taken, wireOut, netEvent, sockOps,
                           faultsLeft>>
       ELSE LET m == Head(network_queue) IN
            /\ network_queue' = Tail(network_queue)
            /\ taken' = Append(taken, m)
            /\ sockOps' = sockOps \cup {"send"}
            /\ \E o \in SendOutcomes(m) :
                  /\ wireOut' = wireOut \o SubSeq(Encode(m), 1, o.k)
                  /\ netEvent' = o.kind
                  /\ netpc' = AfterSend(o.kind)
                  /\ faultsLeft' = IF o.fault THEN faultsLeft - 1 ELSE faultsLeft
    /\ UNCHANGED <<flags, audio_queue, text_queue, translation_queue, sinks,
                   socket, connection, closed, timeouts, cappc, recpc, transpc,
                   vidpc, mainpc, locals, rxstate, inbuf, peerClosed, peerLog,
                   decoded, engineLog, heard, nAudio, nFrames, nPeer, probe>>

\* what recv(want) can do: return the bytes the peer has written, up to
\* want of them (fewer when the rest is late), return b'' at the end of the
\* stream, raise socket.timeout after 0.1 s, or raise another error (at
\* once on a socket already closed)
RecvOutcomes(want) ==
    LET avail == Min(want, Len(inbuf)) IN
    IF connection \in closed
    THEN {[kind |-> "recv_error", k |-> 0, fault |-> FALSE]}
    ELSE (IF inbuf # <<>> THEN {[kind |-> "data", k |-> avail, fault |-> FALSE]}
          ELSE IF peerClosed THEN {[kind |-> "eof", k |-> 0, fault |-> FALSE]}
          ELSE {[kind |-> "recv_timeout", k |-> 0, fault |-> FALSE]})
         \cup (IF faultsLeft > 0
               THEN {[kind |-> "data", k |-> k, fault |-> TRUE] : k \in 1 .. (avail - 1)}
                    \cup {[kind |-> "recv_error", k |-> 0, fault |-> TRUE]}
                    \cup (IF inbuf # <<>>
                          THEN {[kind |-> "recv_timeout", k |-> 0, fault |-> TRUE]}
                          ELSE {})
               ELSE {})

\* a mutant of AfterRecvError: a short header ends the loop
AfterRecvError_StructBreaks(kind) ==
    IF kind = "recv_timeout" THEN "loop" ELSE "finally"

\* lines 289-295: socket.timeout and struct.error continue, anything else
\* breaks
AfterRecvError(kind) ==
    IF kind \in {"recv_timeout", "struct_error"} THEN "loop" ELSE "finally"

\* a mutant of OnIncomplete: the partial payload is handed on
OnIncomplete_Deliver == [pc |-> "loop", deliver |-> TRUE]

\* lines 266-267, 271-272: b'' ends the inner loop, then
\* "if received < msg_size: continue"
OnIncomplete == [pc |-> "loop", deliver |-> FALSE]

\* lines 274-287: the payload of a whole message: a video frame is unpickled
\* into remote_frame, a text is decoded and printed; either failure is
\* caught and printed; another tag is ignored
Deliver(tag, data) ==
    /\ decoded' = Append(decoded, <<tag, data>>)
    /\ IF tag = 0
       THEN /\ remote_frame' = IF Unpickle(data).ok THEN Unpickle(data).frame
                               ELSE remote_frame
            /\ netEvent' = IF Unpickle(data).ok THEN "video" ELSE "unpickle_error"
            /\ UNCHANGED textLog
       ELSE IF tag = 1
       THEN /\ textLog' = IF Utf8Decode(data).ok
                          THEN Append(textLog, Utf8Decode(data).text)
                          ELSE textLog
            /\ netEvent' = IF Utf8Decode(data).ok THEN "text" ELSE "decode_error"
            /\ UNCHANGED remote_frame
       ELSE /\ netEvent' = "ignored"
            /\ UNCHANGED sinks

\* lines 252-259 (and 261-263, 274-287 for an empty payload): recv(9),
\* "if not header: continue", unpack
NetRecvHeader ==
    /\ netpc = "recv"
    /\ sockOps' = sockOps \cup {"recv"}
    /\ \E o \in RecvOutcomes(HeaderLen) :
          LET header == SubSeq(inbuf, 1, o.k)
              h == Unpack(header)
          IN  /\ inbuf' = SubSeq(inbuf, o.k + 1, Len(inbuf))
              /\ faultsLeft' = IF o.fault THEN faultsLeft - 1 ELSE faultsLeft
              /\ CASE o.kind = "eof" ->
                        /\ netpc' = "loop" /\ netEvent' = "header_eof"
                        /\ UNCHANGED <<rxstate, sinks, decoded>>
                   [] o.kind \in {"recv_timeout", "recv_error"} ->
                        /\ netpc' = AfterRecvError(o.kind) /\ netEvent' = o.kind
                        /\ UNCHANGED <<rxstate, sinks, decoded>>
                   [] o.kind = "data" /\ ~h.ok ->
                        /\ netpc' = AfterRecvError("struct_error")
                        /\ netEvent' = "struct_error"
                        /\ UNCHANGED <<rxstate, sinks, decoded>>
                   [] o.kind = "data" /\ h.ok /\ h.size = 0 ->
                        /\ netpc' = "loop"
                        /\ Deliver(h.tag, <<>>)
                        /\ UNCHANGED rxstate
                   [] OTHER ->
                        /\ netpc' = "payload" /\ netEvent' = "header"
                        /\ msg_type' = h.tag /\ msg_size' = h.size
                        /\ received' = 0 /\ chunks' = <<>>
                        /\ UNCHANGED <<sinks, decoded>>
    /\ UNCHANGED <<flags, queues, socket, connection, closed, timeouts, cappc,
                   recpc, transpc, vidpc, mainpc, locals, wireOut, peerClosed,
                   peerLog, taken, engineLog, heard, nAudio, nFrames, nPeer,
                   probe>>

\* lines 264-287: one recv of the payload loop; the message is handed on
\* once received reaches msg_size
NetRecvPayload ==
    /\ netpc = "payload"
    /\ sockOps' = sockOps \cup {"recv"}
    /\ \E o \in RecvOutcomes(Min(msg_size - received, ChunkMax)) :
          LET chunk == SubSeq(inbuf, 1, o.k) IN
          /\ inbuf' = SubSeq(inbuf, o.k + 1, Len(inbuf))
          /\ faultsLeft' = IF o.fault THEN faultsLeft - 1 ELSE faultsLeft
          /\ CASE o.kind = "data" /\ received + o.k < msg_size ->
                    /\ received' = received + o.k
                    /\ chunks' = chunks \o chunk
                    /\ netpc' = "payload" /\ netEvent' = "chunk"
                    /\ UNCHANGED <<msg_type, msg_size, sinks, decoded>>
               [] o.kind = "data" /\ received + o.k >= msg_size ->
                    /\ netpc' = "loop"
                    /\ Deliver(msg_type, chunks \o chunk)
                    /\ msg_type' = 0 /\ msg_size' = 0
                    /\ received' = 0 /\ chunks' = <<>>
               [] o.kind = "eof" ->
                    /\ netpc' = OnIncomplete.pc
                    /\ IF OnIncomplete.deliver
                       THEN Deliver(msg_type, chunks)
                       ELSE netEvent' = "payload_eof" /\ UNCHANGED <<sinks, decoded>>
                    /\ msg_type' = 0 /\ msg_size' = 0
                    /\ received' = 0 /\ chunks' = <<>>
               [] OTHER ->
                    /\ netpc' = AfterRecvError(o.kind) /\ netEvent' = o.kind
                    /\ msg_type' = 0 /\ msg_size' = 0
                    /\ received' = 0 /\ chunks' = <<>>
                    /\ UNCHANGED <<sinks, decoded>>
    /\ UNCHANGED <<flags, queues, socket, connection, closed, timeouts, cappc,
                   recpc, transpc, vidpc, mainpc, locals, wireOut, peerClosed,
                   peerLog, taken, engineLog, heard, nAudio, nFrames, nPeer,
                   probe>>

\* a mutant of NetFinally: only the connection is closed
NetFinally_ConnOnly ==
    /\ netpc = "finally"
    /\ closed' = closed \cup ({connection} \ {NoSock})
    /\ sockOps' = IF OpenHandles = {} THEN sockOps ELSE sockOps \cup {"close"}
    /\ netpc' = "done"
    /\ UNCHANGED <<flags, queues, sinks, socket, connection, timeouts, cappc,
                   recpc, transpc, vidpc, mainpc, locals, rxstate, wire, ghosts,
                   counts, probe>>

\* a mutant of NetFinally: the end of the transport ends the call
NetFinally_StopsCall ==
    /\ netpc = "finally"
    /\ closed' = closed \cup OpenHandles
    /\ sockOps' = IF OpenHandles = {} THEN sockOps ELSE sockOps \cup {"close"}
    /\ netpc' = "done"
    /\ running' = FALSE
    /\ UNCHANGED <<translating, in_call, is_host, queues, sinks, socket,
                   connection, timeouts, cappc, recpc, transpc, vidpc, mainpc,
                   locals, rxstate, wire, ghosts, counts, probe>>

\* lines 297-304: except (logged), finally: close the connection and the
\* socket, whichever exist
NetFinally ==
    /\ netpc = "finally"
    /\ closed' = closed \cup OpenHandles
    /\ sockOps' = IF OpenHandles = {} THEN sockOps ELSE sockOps \cup {"close"}
    /\ netpc' = "done"
    /\ UNCHANGED <<flags, queues, sinks, socket, connection, timeouts, cappc,
                   recpc, transpc, vidpc, mainpc, locals, rxstate, wire, ghosts,
                   counts, probe>>

\* ------------------------------------------------------------ remote peer
\* what the peer's stages may queue: a text "A", a video frame
PeerMsgs == {[type |-> "text", data |-> <<65>>], [type |-> "video", data |-> <<7>>]}

\* the peer's network_thread send (lines 231-246): a whole frame, or the
\* prefix a failed sendall leaves on the stream
PeerSend ==
    /\ connection # NoSock /\ ~peerClosed
    /\ nPeer < MaxPeerMsgs
    /\ \E m \in PeerMsgs :
       \E k \in (IF faultsLeft > 0 THEN 1 ELSE Len(Encode(m))) .. Len(Encode(m)) :
          /\ inbuf' = inbuf \o SubSeq(Encode(m), 1, k)
          /\ peerLog' = Append(peerLog, [msg |-> m, whole |-> (k = Len(Encode(m)))])
          /\ faultsLeft' = IF k < Len(Encode(m)) THEN faultsLeft - 1 ELSE faultsLeft
    /\ nPeer' = nPeer + 1
    /\ UNCHANGED <<flags, queues, sinks, socks, pcs, locals, rxstate, wireOut,
                   peerClosed, ghosts, nAudio, nFrames, probe>>

\* the peer's finally (lines 299-303): its end of the connection is closed
PeerClose ==
    /\ connection # NoSock /\ ~peerClosed
    /\ peerClosed' = TRUE
    /\ UNCHANGED <<flags, queues, sinks, socks, pcs, locals, rxstate, wireOut,
                   inbuf, peerLog, ghosts, counts, probe>>

\* ------------------------------------------------------------ specification
Next ==
    \/ MainStart \/ MainJoin \/ MainRelease \/ MainQuitAudio \/ MainClose
    \/ CapListen
    \/ RecRecognize
    \/ TransLoop \/ TransTranslate
    \/ VidLoop \/ VidPeek \/ VidShow
    \/ NetSetup \/ NetAccept \/ NetConnect \/ NetLoop
    \/ NetSend \/ NetRecvHeader \/ NetRecvPayload \/ NetFinally
    \/ PeerSend \/ PeerClose

Spec == Init /\ [][Next]_vars


\* every stage is scheduled again and again, connect() ends within the
\* system's connect timeout, and each timeout-bounded call returns; accept()
\* returns only when a client connects, which nothing guarantees, and the
\* peer owes nothing
FairSpec ==
    /\ Spec
    /\ WF_vars(MainJoin) /\ WF_vars(MainRelease) /\ WF_vars(MainQuitAudio)
    /\ WF_vars(MainClose)
    /\ WF_vars(CapListen) /\ WF_vars(RecRecognize)
    /\ WF_vars(TransLoop) /\ WF_vars(TransTranslate)
    /\ WF_vars(VidLoop) /\ WF_vars(VidPeek) /\ WF_vars(VidShow)
    /\ WF_vars(NetSetup) /\ WF_vars(NetConnect) /\ WF_vars(NetLoop)
    /\ WF_vars(NetSend) /\ WF_vars(NetRecvHeader) /\ WF_vars(NetRecvPayload)
    /\ WF_vars(NetFinally)

\* the program with the translating flag toggled from outside during the call
SpecToggled == Init /\ [][Next \/ ToggleTranslating]_vars

\* ---------------------------------------------------- the transport alone
SeqsUpTo(S, n) == UNION {[1 .. k -> S] : k \in 0 .. n}

\* A call in progress at the moment network_thread (started last, line 319)
\* first runs: the recognition stage has already heard every segment and
\* put its texts on text_queue and network_queue; the microphone stays
\* silent from here on and the network may fail MaxFaults times.
InitTransport ==
    /\ running = TRUE /\ translating = TRUE
    /\ in_call = TRUE /\ is_host \in BOOLEAN
    /\ audio_queue = <<>> /\ translation_queue = <<>>
    /\ text_queue \in SeqsUpTo(Utterances, MaxAudio)
    /\ network_queue = [i \in 1 .. Len(text_queue) |->
                          [type |-> "text", data |-> text_queue[i]]]
    /\ remote_frame = <<>> /\ textLog = <<>>
    /\ socket = NoSock /\ connection = NoSock
    /\ closed = {} /\ timeouts = {} /\ sockOps = {}
    /\ cappc = "loop" /\ recpc = "loop" /\ transpc = "loop"
    /\ vidpc = "loop" /\ netpc = "start" /\ mainpc = "join"
    /\ text = <<>> /\ frame = <<>> /\ overlay = NoOverlay
    /\ msg_type = 0 /\ msg_size = 0 /\ received = 0 /\ chunks = <<>>
    /\ wireOut = <<>> /\ inbuf = <<>> /\ peerClosed = FALSE /\ peerLog = <<>>
    /\ netEvent = "none" /\ taken = <<>> /\ decoded = <<>> /\ engineLog = <<>>
    /\ heard = text_queue
    /\ nAudio = MaxAudio /\ nFrames = 0 /\ nPeer = 0
    /\ faultsLeft = MaxFaults
    /\ probe = NoProbe

\* the transport, the peer, and the two stages that act on it: the video
\* stage (frames, the quit key) and the orchestrator (shutdown)
NextTransport ==
    \/ MainJoin \/ MainRelease \/ MainQuitAudio \/ MainClose
    \/ VidLoop \/ VidPeek \/ VidShow
    \/ NetSetup \/ NetAccept \/ NetConnect \/ NetLoop
    \/ NetSend \/ NetRecvHeader \/ NetRecvPayload \/ NetFinally
    \/ PeerSend \/ PeerClose

SpecTransport == InitTransport /\ [][NextTransport]_vars

\* ------------------------------------------------------ the pipeline alone
\* A local demo in progress (setup_call choice 3): the five threads have
\* just been started and the capture stage has already heard a first
\* segment; the microphone delivers MaxAudio more.
InitPipeline ==
    /\ running = TRUE /\ translating = TRUE
    /\ in_call = FALSE /\ is_host = FALSE
    /\ \E u \in Utterances : audio_queue = <<u>> /\ heard = <<u>>
    /\ text_queue = <<>> /\ translation_queue = <<>> /\ network_queue = <<>>
    /\ remote_frame = <<>> /\ textLog = <<>>
    /\ socket = NoSock /\ connection = NoSock
    /\ closed = {} /\ timeouts = {} /\ sockOps = {}
    /\ cappc = "loop" /\ recpc = "loop" /\ transpc = "loop"
    /\ vidpc = "loop" /\ netpc = "start" /\ mainpc = "join"
    /\ text = <<>> /\ frame = <<>> /\ overlay = NoOverlay
    /\ msg_type = 0 /\ msg_size = 0 /\ received = 0 /\ chunks = <<>>
    /\ wireOut = <<>> /\ inbuf = <<>> /\ peerClosed = FALSE /\ peerLog = <<>>
    /\ netEvent = "none" /\ taken = <<>> /\ decoded = <<>> /\ engineLog = <<>>
    /\ nAudio = 0 /\ nFrames = 0 /\ nPeer = 0
    /\ faultsLeft = 0
    /\ probe = NoProbe

\* the four pipeline stages, the transport's immediate return (line 206) and
\* the orchestrator
NextPipeline ==
    \/ MainJoin \/ MainRelease \/ MainQuitAudio \/ MainClose
    \/ CapListen
    \/ RecRecognize
    \/ TransLoop \/ TransTranslate
    \/ VidLoop \/ VidPeek \/ VidShow
    \/ NetSetup

SpecPipeline == InitPipeline /\ [][NextPipeline]_vars

\* ------------------------------------------------------ the framer alone
\* payload lengths that need one, two and three length bytes
WideLens == {255, 256, 65535, 65536}

ProbePayloads ==
    {[i \in 1 .. n |-> (7 * i) % 256] : n \in (0 .. MaxProbeLen) \cup WideLens}

InitCodec ==
    /\ Constructed
    /\ faultsLeft = 0
    /\ \E t \in {0, 1} : \E pl \in ProbePayloads :
          probe = [NoProbe EXCEPT !.stage = "input", !.tag = t, !.payload = pl]

\* encode(tag, payload)
ProbeEncode ==
    /\ probe.stage = "input"
    /\ probe' = [probe EXCEPT !.stage = "encoded",
                              !.bytes = Frame(probe.tag, probe.payload)]
    /\ UNCHANGED <<flags, queues, sinks, socks, pcs, locals, rxstate, wire,
                   ghosts, counts>>

\* decodeHeader of the first cut bytes of the frame
ProbeDecode ==
    /\ probe.stage = "encoded"
    /\ \E cut \in 0 .. HeaderLen :
          /\ cut <= Len(probe.bytes)
          /\ probe' = [probe EXCEPT !.stage = "decoded", !.cut = cut,
                          !.result = Unpack(SubSeq(probe.bytes, 1, cut))]
    /\ UNCHANGED <<flags, queues, sinks, socks, pcs, locals, rxstate, wire,
                   ghosts, counts>>

NextCodec == ProbeEncode \/ ProbeDecode

SpecCodec == InitCodec /\ [][NextCodec]_vars


\* ------------------------------------------------------------------ claims
IsPrefix(p, w) == Len(p) <= Len(w) /\ SubSeq(w, 1, Len(p)) = p

Drop(w, n) == SubSeq(w, n + 1, Len(w))

RECURSIVE WholeFrames(_, _)
\* w is the frames of some of msgs, whole and in their order
WholeFrames(w, msgs) ==
    IF w = <<>> THEN TRUE
    ELSE IF msgs = <<>> THEN FALSE
    ELSE \/ /\ IsPrefix(Encode(Head(msgs)), w)
            /\ WholeFrames(Drop(w, Len(Encode(Head(msgs)))), Tail(msgs))
         \/ WholeFrames(w, Tail(msgs))

\* C1: the bytes written to the socket are always whole frames (9-byte
\* header + exactly `length` payload bytes) of messages taken from
\* network_queue, in the order they were taken, whatever each send attempt
\* did (returned, timed out, connection reset, broken pipe).
C1_WireIsWholeFramesInOrder == WholeFrames(wireOut, taken)

\* C2: decoding the first 9 bytes of encode(tag, payload) gives exactly
\* (tag, len(payload)), for both tags and every payload length from 0 up;
\* decoding fewer than 9 bytes is a format error.
C2_HeaderRoundTrip ==
    probe.stage = "decoded" =>
        IF probe.cut = HeaderLen
        THEN probe.result =
                [ok |-> TRUE, tag |-> probe.tag, size |-> Len(probe.payload)]
        ELSE ~probe.result.ok

\* a header decoded from a frame whose length needs two bytes
C2_Witness ==
    /\ probe.stage = "decoded" /\ probe.cut = HeaderLen
    /\ probe.tag = 1 /\ Len(probe.payload) = 256
    /\ probe.result.ok /\ probe.result.size = 256

\* C3: once running has been set to false, the capture, recognition,
\* translation and transport stages all leave their loops and end.
C3_StagesStopAfterFlag ==
    (mainpc # "start" /\ ~running)
        ~> (cappc = "done" /\ recpc = "done" /\ transpc = "done" /\ netpc = "done")

\* C4: every blocking call is timeout-bounded: a transport that waits in
\* accept() or connect() waits on a socket that has a timeout set.
C4_BlockingCallsBounded ==
    netpc \in {"accept", "connect"} => socket \in timeouts

\* C5: in local demo mode no socket operation is ever performed and nothing
\* is ever put on network_queue, from start() to the end of the shutdown.
C5_DemoNoSockets ==
    ~in_call =>
        /\ sockOps = {} /\ socket = NoSock /\ connection = NoSock
        /\ closed = {} /\ wireOut = <<>>
        /\ network_queue = <<>> /\ taken = <<>>

\* a local demo that ran to the end of start(): a frame was shown, a text
\* recognised and translated, the shutdown completed
C5_Witness ==
    /\ ~in_call /\ mainpc = "done" /\ netpc = "done"
    /\ nFrames > 0 /\ translation_queue # <<>>

\* the transport has taken a step out of the place pc
NetStepFrom(pc) ==
    /\ netpc = pc
    /\ netpc' # netpc \/ netEvent' # netEvent \/ received' # received

\* C6: the stream ends (recv returns b'') after a header, before `length`
\* payload bytes: the transport goes back to the top of its loop, neither
\* remote_frame nor the text log takes anything from the partial payload,
\* and with running still true the loop goes on to its next send attempt.
C6_EofMidPayloadDiscards ==
    [][ /\ (NetStepFrom("payload") /\ inbuf = <<>> /\ peerClosed
              /\ connection \notin closed /\ faultsLeft' = faultsLeft)
           => (netpc' = "loop" /\ UNCHANGED <<remote_frame, textLog, decoded>>)
        /\ (NetStepFrom("loop") /\ netEvent = "payload_eof" /\ running)
           => netpc' = "send" ]_vars

\* the loop has just discarded a partial payload at the end of the stream
C6_Witness ==
    /\ netEvent = "payload_eof" /\ netpc = "loop" /\ running
    /\ peerLog # <<>> /\ decoded = <<>>

\* the messages of the peer's log, as the receiver should decode them
Expected(log) ==
    [i \in 1 .. Len(log) |->
        <<IF log[i].msg.type = "video" THEN 0 ELSE 1, Payload(log[i].msg)>>]

\* C7: every message the peer sent completely is decoded with the same tag
\* and the same payload bytes: once the receiver has read all the peer
\* wrote and is between messages, it has decoded exactly the peer's messages.
C7_SentWholeIsDecoded ==
    (/\ \A i \in 1 .. Len(peerLog) : peerLog[i].whole
     /\ inbuf = <<>> /\ netpc \in {"loop", "send", "recv"})
        => decoded = Expected(peerLog)

\* C8: while translating is false, a text that leaves text_queue is dropped:
\* the translation stage is back at the top of its loop holding nothing,
\* translation_queue is unchanged and no engine has been called; and the
\* recognition stage can still put a recognised text on text_queue.
C8_DisabledDropsText ==
    /\ [][ (~translating /\ Len(text_queue') < Len(text_queue))
           => /\ text_queue' = Tail(text_queue)
              /\ transpc' = "loop" /\ text' = <<>>
              /\ UNCHANGED <<translation_queue, engineLog>> ]_vars
    /\ [](  (~translating /\ running /\ recpc = "loop" /\ audio_queue # <<>>)
           => ENABLED (RecRecognize
                        /\ text_queue' = Append(text_queue, Head(audio_queue))))

\* in a call with translating false: a text was recognised (it went out to
\* the network), it has left text_queue, and no engine was ever called
C8_Witness ==
    /\ ~translating /\ in_call /\ running
    /\ \E i \in 1 .. Len(taken \o network_queue) :
          (taken \o network_queue)[i].type = "text"
    /\ text_queue = <<>> /\ transpc = "loop"
    /\ translation_queue = <<>> /\ engineLog = <<>>

\* C9: a send attempt that fails with a timeout, a connection reset or a
\* broken pipe drops the message it took: the message is off the queue, the
\* bytes a send writes are only ever those of the message it has just
\* taken, nothing but the video stage adds to the queue, and the loop goes
\* back to its top (it does not exit); the take is always the queue's head.
C9_FailedSendDropsMessage ==
    [][ /\ (NetStepFrom("send") /\ network_queue # <<>>)
           => /\ network_queue' = Tail(network_queue)
              /\ taken' = Append(taken, Head(network_queue))
              /\ \E k \in 0 .. Len(Encode(Head(network_queue))) :
                    wireOut' = wireOut \o SubSeq(Encode(Head(network_queue)), 1, k)
        /\ (NetStepFrom("send") /\ netEvent' \in TransientSend)
           => netpc' = "loop"
        /\ (NetStepFrom("loop") /\ netEvent \in TransientSend /\ running)
           => netpc' = "send"
        /\ (wireOut' # wireOut) => NetStepFrom("send")
        /\ (Len(network_queue') > Len(network_queue))
           => (vidpc = "show" /\ vidpc' = "loop") ]_vars

\* a send has just failed with a transient error and another message waits
C9_Witness ==
    /\ netEvent \in TransientSend /\ netpc = "loop" /\ running
    /\ taken # <<>> /\ network_queue # <<>>

ErrorEvents ==
    {"send_timeout", "send_reset", "send_pipe", "send_error", "recv_timeout",
     "recv_error", "struct_error", "unpickle_error", "decode_error"}

TimeoutEvents == {"send_timeout", "recv_timeout"}

\* the transport has just raised the error e inside its loop
RaisedInLoop(e) ==
    /\ netpc \in {"send", "recv", "payload"}
    /\ netEvent' # netEvent /\ netEvent' = e

\* every socket object the transport created is closed
HandlesClosed == OpenHandles \subseteq closed

\* C10 as stated: any error in the loop that is neither a timeout nor a
\* transient socket error ends the loop, and every handle is closed when the
\* thread ends.
C10_AnyOtherErrorEndsLoop ==
    /\ [][ \A e \in ErrorEvents \ (TimeoutEvents \cup TransientSend) :
              RaisedInLoop(e) => netpc' = "finally" ]_vars
    /\ [](netpc = "done" => HandlesClosed)

\* C10 as amended: a header format error (struct.error) and a payload
\* decoding error continue the loop like a timeout; every other error ends
\* it; and every handle is closed when the thread ends.
C10_OtherErrorEndsLoop ==
    /\ [][ /\ \A e \in {"send_error", "recv_error"} :
                 RaisedInLoop(e) => netpc' = "finally"
           /\ \A e \in {"struct_error", "unpickle_error", "decode_error"} :
                 RaisedInLoop(e) => netpc' = "loop" ]_vars
    /\ [](netpc = "done" => HandlesClosed)

\* a host whose loop ended on a receive error, with both the listening
\* socket and the accepted connection closed
C10_Witness ==
    /\ netpc = "done" /\ netEvent = "recv_error"
    /\ socket = SockId /\ connection = ConnId
    /\ closed = {SockId, ConnId} /\ mainpc = "join"

\* the transport is over: its setup failed or its loop has ended
TransportOver == netpc \in {"finally", "done"}

\* C11: a setup failure or a fatal error of the transport ends the transport
\* only: no step of the transport changes the running flag or the place of
\* another stage, and while the call runs with the transport over, the
\* capture, recognition, translation and video stages are all still in their
\* loops and able to take their next step.
C11_TransportFailsAlone ==
    /\ [][ (netpc' # netpc \/ netEvent' # netEvent)
           => UNCHANGED <<running, cappc, recpc, transpc, vidpc, mainpc,
                          audio_queue, text_queue, translation_queue>> ]_vars
    /\ []( (TransportOver /\ running)
           => /\ cappc = "loop" /\ ENABLED CapListen
              /\ recpc = "loop" /\ ENABLED RecRecognize
              /\ transpc \in {"loop", "translate"}
              /\ ENABLED (TransLoop \/ TransTranslate)
              /\ vidpc \in {"loop", "peek", "show"}
              /\ ENABLED (VidLoop \/ VidPeek \/ VidShow) )

\* the transport died of a receive error in the middle of a call, the flag
\* is still true and the video stage is in the middle of a pass
C11_Witness ==
    /\ netpc = "done" /\ netEvent = "recv_error" /\ running
    /\ connection \in closed /\ mainpc = "join"
    /\ vidpc = "show" /\ network_queue = <<>> /\ taken # <<>>

\* C12: the quit key seen by the video stage is the only trigger of the
\* shutdown: the video stage ends, and start() leaves its join and begins the
\* teardown, only when the video stage has already set running to false.
C12_QuitIsSoleTrigger ==
    [][ ( \/ (vidpc' # vidpc /\ vidpc' \in {"done", "crashed"})
          \/ (mainpc = "join" /\ mainpc' # "join") )
        => ~running ]_vars

\* start() is over: it returned, or a release raised out of it
StartEnded == mainpc \in {"done", "aborted_camera", "aborted_audio"}

\* C13: once the video stage is over, start() sets running to false before
\* it releases anything, and by the time it ends it has gone through the
\* release of the camera, of the audio device and of the socket, in that
\* order, whether or not an earlier release raised.
C13_ReleasesAllInOrder ==
    /\ (mainpc = "release" \/ Attempted # <<>>) => ~running
    /\ StartEnded => Attempted = <<"camera", "audio", "socket">>

\* the Text message that carries the string t
TextMsg(t) == [type |-> "text", data |-> t]

\* C14: the recognition stage takes one segment at a time; when it
\* recognises the text t it puts t on text_queue and, exactly when a call is
\* active, ('text', t) on network_queue; when the recognition fails it puts
\* nothing on either queue; either way it stays in its loop. No Text message
\* reaches network_queue in any other way.
C14_RecognisedTextGoesOut ==
    [][ /\ (Len(audio_queue') < Len(audio_queue))
           => /\ audio_queue' = Tail(audio_queue)
              /\ recpc' = "loop"
              /\ \/ /\ text_queue' = Append(text_queue, Head(audio_queue))
                    /\ network_queue' =
                          IF in_call
                          THEN Append(network_queue, TextMsg(Head(audio_queue)))
                          ELSE network_queue
                 \/ UNCHANGED <<text_queue, network_queue>>
        /\ (Len(text_queue') > Len(text_queue))
           => Len(audio_queue') < Len(audio_queue)
        /\ (/\ Len(network_queue') > Len(network_queue)
            /\ Last(network_queue').type = "text")
           => (in_call /\ Len(text_queue') > Len(text_queue)) ]_vars

\* in a call, a recognised text is on text_queue and the same string is the
\* last message of network_queue
C14_Witness ==
    /\ in_call /\ running /\ recpc = "loop" /\ audio_queue = <<>>
    /\ text_queue # <<>> /\ network_queue # <<>>
    /\ Last(network_queue) = TextMsg(Last(text_queue))

\* C15: the receiver tolerates partial reads and timeouts: a header read of
\* fewer than 9 bytes takes nothing from the stream that a later read will
\* not see, and a timeout between two reads of a payload keeps the bytes
\* collected so far, so that when every frame the peer wrote has arrived
\* whole and the stream is still open, the receiver has delivered exactly
\* those frames.
C15_ReceiveToleratesPartialReads ==
    /\ [][ /\ (NetStepFrom("recv") /\ netEvent' = "struct_error")
              => inbuf' = inbuf
           /\ (NetStepFrom("payload") /\ netEvent' = "recv_timeout")
              => UNCHANGED <<msg_type, msg_size, received, chunks>> ]_vars
    /\ []( (/\ \A i \in 1 .. Len(peerLog) : peerLog[i].whole
            /\ ~peerClosed /\ connection \notin closed
            /\ inbuf = <<>> /\ netpc \in {"loop", "send", "recv"}
            /\ netEvent \notin {"recv_error", "send_error"})
           => decoded = Expected(peerLog) )

\* the video stage takes a step
VidStep == vidpc' # vidpc \/ frame' # frame \/ overlay' # overlay

\* C16: no step of the video stage changes text_queue or translation_queue;
\* translation_queue only ever grows at its end; and a translation the video
\* stage draws on a frame is the last one put on translation_queue.
C16_OverlayPeeksOnly ==
    [][ /\ VidStep => UNCHANGED <<text_queue, translation_queue>>
        /\ IsPrefix(translation_queue, translation_queue')
        /\ (VidStep /\ overlay'.translation # overlay.translation
                    /\ overlay' # NoOverlay)
           => /\ translation_queue # <<>>
              /\ overlay'.translation = Last(translation_queue) ]_vars

\* two different translations were produced and the frame shows the second
C16_Witness ==
    /\ Len(translation_queue) = 2
    /\ translation_queue[1] # translation_queue[2]
    /\ overlay.translation = translation_queue[2]
    /\ vidpc = "loop" /\ nFrames > 0

RECURSIVE IsSubseq(_, _)
\* a is b with some of its elements left out
IsSubseq(a, b) ==
    IF a = <<>> THEN TRUE
    ELSE IF b = <<>> THEN FALSE
    ELSE IF Head(a) = Head(b) THEN IsSubseq(Tail(a), Tail(b))
    ELSE IsSubseq(a, Tail(b))

\* the text a translation was made from
SourceOf(translation) == Tail(translation)

\* what the pipeline holds, oldest first: the sources of the translations
\* produced, the text being translated, the texts waiting, the segments
\* waiting
InPipeline ==
    [i \in 1 .. Len(translation_queue) |-> SourceOf(translation_queue[i])]
    \o (IF transpc = "translate" THEN <<text>> ELSE <<>>)
    \o text_queue \o audio_queue

\* C17: the hand-off is exactly-once and keeps the order: what the pipeline
\* holds is always the captured segments in their order of capture, each at
\* most once; a segment leaves audio_queue only from its head and only by a
\* pass of the recognition stage, a text leaves text_queue only from its
\* head and only into the hands of the translation stage, and every queue
\* grows only at its end.
C17_HandOffOnceInOrder ==
    /\ [] IsSubseq(InPipeline, heard)
    /\ [][ /\ (Len(audio_queue') < Len(audio_queue))
              => /\ audio_queue' = Tail(audio_queue)
                 /\ recpc = "loop" /\ recpc' = "loop"
           /\ (Len(text_queue') < Len(text_queue))
              => /\ text_queue' = Tail(text_queue)
                 /\ transpc = "loop"
                 /\ translating => (transpc' = "translate"
                                    /\ text' = Head(text_queue))
           /\ (Len(audio_queue') >= Len(audio_queue))
              => IsPrefix(audio_queue, audio_queue')
           /\ (Len(text_queue') >= Len(text_queue))
              => IsPrefix(text_queue, text_queue')
           /\ (translation_queue' # translation_queue)
              => translation_queue' = Append(translation_queue, Translate(text))
         ]_vars

\* two different segments went through the whole pipeline and their
\* translations are on translation_queue in the order of capture
C17_Witness ==
    /\ Len(heard) = 2 /\ heard[1] # heard[2]
    /\ translation_queue = <<Translate(heard[1]), Translate(heard[2])>>
    /\ audio_queue = <<>> /\ text_queue = <<>> /\ transpc = "loop"

\* C18: the video stage's check-then-peek on text_queue is safe: when it
\* reads the last element after having seen the queue non-empty, the queue
\* still holds an element, and the video stage never ends on a failed peek.
C18_CheckThenPeekSafe ==
    /\ vidpc = "peek" => text_queue # <<>>
    /\ vidpc # "crashed"

\* C19: nothing is used after start() released it: the translation stage
\* makes no audio-output call once pygame.quit() has returned, and the
\* transport makes no send or recv on the connection once start() has
\* closed it.
C19_NoUseAfterRelease ==
    [][ /\ AudioShutDown
           => ~(engineLog' # engineLog /\ Last(engineLog') = "play")
        /\ (mainpc = "done" /\ connection \in closed)
           => ~ \/ NetStepFrom("send") /\ network_queue # <<>>
                \/ NetStepFrom("recv")
                \/ NetStepFrom("payload") ]_vars

\* C20: while the call is active and running is true, a message on
\* network_queue is eventually taken off it by the transport, also after the
\* transport's setup has failed or its loop has ended: from a state where the
\* transport is over and a message waits, the queue becomes empty (or the
\* call stops running).
C20_OutboundEventuallyTaken ==
    (in_call /\ running /\ TransportOver /\ network_queue # <<>>)
        ~> (network_queue = <<>> \/ ~running)

====
